---- MODULE Spec2Model ----
(***************************************************************************)
(* Model of the collection and product routes of the embedded admin app:   *)
(* the loaders (upstream query, normalisation, stock filter), the          *)
(* cursor-paged products view (search filter, tabs, pagination, CSV        *)
(* export), the page-number variant of the same view, and the product      *)
(* loader.                                                                 *)
(*                                                                         *)
(* Strings are sequences of one-character tokens, so that toLowerCase,     *)
(* includes, trim, replace and the CSV quoting act on characters.          *)
(***************************************************************************)
EXTENDS Integers, Sequences, FiniteSets, TLC

VARIABLES
    shop,         \* the upstream collection: [mode, title, products]
    perPage,      \* the page size the route was built with
    url,          \* search params of the current location (useSearchParams)
    pending,      \* navigation in flight: its search params, or None
    loaderData,   \* what useLoaderData returns: NotLoaded, data or a thrown Response
    upstream,     \* the upstream response the last loader call received
    searchQuery,  \* useState("")
    selectedTab,  \* useState(0 | 1)
    out,          \* effects of the last handler: [alert, file]
    visited,      \* the page windows of the current run of forward deliveries
    pageParam,    \* page-number variant: the page search param
    prodCall,     \* product loader: the last call's inputs
    prodResult    \* product loader: the last call's outcome

vars == <<shop, perPage, url, pending, loaderData, upstream, searchQuery,
          selectedTab, out, visited, pageParam, prodCall, prodResult>>

-----------------------------------------------------------------------------
(* Bounds of the model and constants of the program *)

\* PRODUCTS_PER_PAGE of the cursor-paged route
PRODUCTS_PER_PAGE == 30

\* the page size the exhaustive specifications run with, in place of 30
PageSize == 2

\* longest upstream collection of the exhaustive specifications
MaxProducts == 3

\* An optional value (null, undefined, an absent search param) is the empty
\* tuple; a present value v is <<v>>.
Nothing == <<>>
Just(v) == <<v>>

-----------------------------------------------------------------------------
(* Strings *)

Max(a, b) == IF a >= b THEN a ELSE b
Min(a, b) == IF a <= b THEN a ELSE b

\* String.prototype.toLowerCase on one character
LowerChar(c) ==
    CASE c = "A" -> "a"
      [] c = "B" -> "b"
      [] c = "G" -> "g"
      [] c = "K" -> "k"
      [] c = "N" -> "n"
      [] OTHER -> c

toLowerCase(s) == [i \in 1..Len(s) |-> LowerChar(s[i])]

\* trim left out
trim_none(s) == s

\* characters String.prototype.trim removes
IsWhitespace(c) == c \in {" ", "\t", "\n"}

RECURSIVE trimStart(_)
trimStart(s) ==
    IF s # <<>> /\ IsWhitespace(Head(s)) THEN trimStart(Tail(s)) ELSE s

RECURSIVE trimEnd(_)
trimEnd(s) ==
    IF s # <<>> /\ IsWhitespace(s[Len(s)])
    THEN trimEnd(SubSeq(s, 1, Len(s) - 1))
    ELSE s

trim(s) == trimEnd(trimStart(s))

\* s starts with p
StartsWith(s, p) == Len(p) <= Len(s) /\ SubSeq(s, 1, Len(p)) = p

\* String.prototype.includes: scan s from the left for an occurrence of q
RECURSIVE includes(_, _)
includes(s, q) ==
    IF StartsWith(s, q) THEN TRUE
    ELSE IF s = <<>> THEN FALSE
    ELSE includes(Tail(s), q)

\* title.replace(/"/g, '""')
RECURSIVE escapeQuotes(_)
escapeQuotes(s) ==
    IF s = <<>> THEN <<>>
    ELSE IF Head(s) = "\"" THEN <<"\"", "\"">> \o escapeQuotes(Tail(s))
    ELSE <<Head(s)>> \o escapeQuotes(Tail(s))

Digits == <<"0", "1", "2", "3", "4", "5", "6", "7", "8", "9">>

\* String(n) for an integer n, as template literals and Array.join produce it
RECURSIVE NatToString(_)
NatToString(n) ==
    IF n < 10 THEN <<Digits[n + 1]>>
    ELSE NatToString(n \div 10) \o <<Digits[(n % 10) + 1]>>

NumToString(n) == IF n < 0 THEN <<"-">> \o NatToString(0 - n) ELSE NatToString(n)

\* the indices of a sequence, in order
Indices(s) == [i \in 1..Len(s) |-> i]

\* Array.prototype.join
RECURSIVE join(_, _)
join(parts, sep) ==
    IF parts = <<>> THEN <<>>
    ELSE IF Len(parts) = 1 THEN parts[1]
    ELSE parts[1] \o sep \o join(Tail(parts), sep)

\* Array.prototype.filter with the predicate given as the set of kept indices
RECURSIVE SelectIdx(_, _, _)
SelectIdx(s, keep, i) ==
    IF i > Len(s) THEN <<>>
    ELSE (IF i \in keep THEN <<s[i]>> ELSE <<>>) \o SelectIdx(s, keep, i + 1)

\* m || d for an optional string m: null and "" are falsy
StrOr(m, d) == IF m # Nothing /\ m[1] # <<>> THEN m[1] ELSE d

\* m || d for an optional number m: null and 0 are falsy
NumOr(m, d) == IF m # Nothing /\ m[1] # 0 THEN m[1] ELSE d

\* searchParams.get(name) || d
ParamOr(m, d) == IF m # Nothing /\ m[1] # "" THEN m[1] ELSE d

\* the dash the product page writes for an absent value
STR_DASH == <<"-">>

STR_NA == <<"N", "/", "A">>

-----------------------------------------------------------------------------
(* The upstream Admin API, as the collection query reads it *)

\* The upstream nodes the exhaustive specifications draw collections from:
\* one with every field, one sold out without barcode and weight, one with
\* no title, inventory, variant or image, one oversold with a weight of 0.
Money(amount) == [amount |-> amount, currencyCode |-> <<"I", "N", "R">>]

NodeFull ==
    [title |-> Just(<<"A", "b">>), totalInventory |-> Just(2),
     featuredImage |-> Just([url |-> <<"u">>, altText |-> Nothing]),
     priceRangeV2 |-> [minVariantPrice |-> Money(<<"9", ".", "5">>)],
     variants |-> <<[barcode |-> Just(<<"B", "1">>),
                     weight |-> Just([value |-> Just(5), unit |-> Just(<<"G">>)])]>>]

NodeSoldOut ==
    [title |-> Just(<<"b">>), totalInventory |-> Just(0),
     featuredImage |-> Just([url |-> <<"u">>, altText |-> Just(<<"a">>)]),
     priceRangeV2 |-> [minVariantPrice |-> Money(<<"1", "0">>)],
     variants |-> <<[barcode |-> Nothing, weight |-> Nothing]>>]

NodeBare ==
    [title |-> Nothing, totalInventory |-> Nothing,
     featuredImage |-> Nothing,
     priceRangeV2 |-> [minVariantPrice |-> Money(<<"0">>)],
     variants |-> <<>>]

NodeOversold ==
    [title |-> Just(<<"a", " ", "B">>), totalInventory |-> Just(-1),
     featuredImage |-> Nothing,
     priceRangeV2 |-> [minVariantPrice |-> Money(<<"1", "2", "0", "0">>)],
     variants |-> <<[barcode |-> Just(<<"a">>),
                     weight |-> Just([value |-> Just(0), unit |-> Just(<<"K", "G">>)])]>>]

ShopNodes == {NodeFull, NodeSoldOut, NodeBare, NodeOversold}

\* the node at position i of the collection carries the id i
WithIds(nodes) ==
    [i \in 1..Len(nodes) |->
        [id |-> i, title |-> nodes[i].title,
         totalInventory |-> nodes[i].totalInventory,
         featuredImage |-> nodes[i].featuredImage,
         priceRangeV2 |-> nodes[i].priceRangeV2,
         variants |-> nodes[i].variants]]

RECURSIVE SeqsUpTo(_, _)
SeqsUpTo(S, n) ==
    IF n = 0 THEN {<<>>}
    ELSE LET shorter == SeqsUpTo(S, n - 1)
         IN  shorter \cup {Append(q, x) : q \in shorter, x \in S}

\* The cursor of the edge at position i is the token i. A cursor is passed
\* through URLs and queries as it is (tokens are taken to be URL-safe).
\* `${null}` in a URL template gives the token "null", which names no edge.
NullCursorToken == 0

\* products(first: n, after: c) / products(last: n, before: c) over items:
\* the edges strictly after (before) the cursor, at most n of them, and
\* pageInfo telling whether items lie before and after the window.
Connection(items, q) ==
    LET L  == Len(items)
        lo == IF q.take = "first"
              THEN (IF q.cursor = Nothing THEN 1 ELSE q.cursor[1] + 1)
              ELSE Max(1, (IF q.cursor = Nothing THEN L + 1 ELSE q.cursor[1]) - q.n)
        hi == IF q.take = "first"
              THEN Min(L, (IF q.cursor = Nothing THEN 0 ELSE q.cursor[1]) + q.n)
              ELSE (IF q.cursor = Nothing THEN L ELSE q.cursor[1] - 1)
    IN  [edges |-> [k \in 1..Max(0, hi - lo + 1) |->
                        [cursor |-> lo + k - 1, node |-> items[lo + k - 1]]],
         pageInfo |-> [hasNextPage |-> hi < L,
                       hasPreviousPage |-> lo > 1,
                       startCursor |-> IF hi < lo THEN Nothing ELSE Just(lo),
                       endCursor |-> IF hi < lo THEN Nothing ELSE Just(hi)]]

\* an error payload: an errors member and no data
ErrorPayload == [errors |-> TRUE, data |-> Nothing]

\* response.json() of the getCollection query against the collection s. The
\* collection exists ("ok"), does not exist ("absent": collection null), the
\* API answers with an error payload ("failing"), or with errors next to a
\* null collection ("denied").
CollectionResponse(s, q) ==
    IF s.mode = "failing" THEN ErrorPayload
    ELSE IF s.mode = "absent"
    THEN [errors |-> FALSE, data |-> Just([collection |-> Nothing])]
    ELSE IF s.mode = "denied"
    THEN [errors |-> TRUE, data |-> Just([collection |-> Nothing])]
    ELSE IF q.cursor # Nothing /\ q.cursor[1] \notin 1..Len(s.products)
    THEN ErrorPayload
    ELSE [errors |-> FALSE,
          data |-> Just([collection |->
                    Just([id |-> s.id, title |-> s.title,
                          productsCount |-> Len(s.products),
                          products |-> Connection(s.products, q)])])]

-----------------------------------------------------------------------------
(* The collection loader of the cursor-paged route *)

\* productsQuery paging forward whatever the direction
productsQuery_forwardOnly(direction, cursor, n) ==
    [take |-> "first", n |-> n, cursor |-> cursor]

\* productsQuery leaving the cursor out of the backward selection
productsQuery_lastWithoutCursor(direction, cursor, n) ==
    IF direction = "next"
    THEN [take |-> "first", n |-> n, cursor |-> cursor]
    ELSE [take |-> "last", n |-> n, cursor |-> Nothing]

\* the products(...) selection built from direction and cursor
productsQuery(direction, cursor, n) ==
    IF direction = "next"
    THEN [take |-> "first", n |-> n, cursor |-> cursor]
    ELSE [take |-> "last", n |-> n, cursor |-> cursor]

\* the weight string of a product's first variant
weightDisplay(weightData) ==
    IF weightData # Nothing /\ NumOr(weightData[1].value, 0) # 0
    THEN NumToString(weightData[1].value[1]) \o <<" ">>
            \o (IF weightData[1].unit = Nothing
                THEN <<>>
                ELSE toLowerCase(weightData[1].unit[1]))
    ELSE STR_NA

\* one product node to the fields of a product record
normalizeNode(node) ==
    LET variant == IF node.variants = <<>> THEN Nothing ELSE Just(node.variants[1])
        weightData == IF variant = Nothing THEN Nothing ELSE variant[1].weight
    IN  [id |-> node.id,
         title |-> StrOr(node.title, STR_NA),
         image |-> IF node.featuredImage = Nothing \/ node.featuredImage[1].url = <<>>
                   THEN Nothing
                   ELSE Just(node.featuredImage[1].url),
         imageAlt |-> IF node.featuredImage # Nothing
                         /\ node.featuredImage[1].altText # Nothing
                         /\ node.featuredImage[1].altText[1] # <<>>
                      THEN node.featuredImage[1].altText
                      ELSE node.title,
         weight |-> weightDisplay(weightData),
         price |-> node.priceRangeV2.minVariantPrice,
         barcode |-> StrOr(IF variant = Nothing THEN Nothing ELSE variant[1].barcode,
                           STR_NA),
         availableUnits |-> NumOr(node.totalInventory, 0)]

\* one edge of the response to one product record of the cursor-paged route
normalize(edge) == normalizeNode(edge.node) @@ [cursor |-> edge.cursor]

\* stockFilterKeeps with >= in place of > for in-stock
stockFilterKeeps_inclusive(product, stockFilter) ==
    IF stockFilter = "in-stock"
    THEN product.availableUnits >= 0
    ELSE product.availableUnits = 0

\* the predicate of the loader's stock filter
stockFilterKeeps(product, stockFilter) ==
    IF stockFilter = "in-stock"
    THEN product.availableUnits > 0
    ELSE product.availableUnits = 0

NotFound == [kind |-> "response", status |-> 404]

\* what the loader returns for the collection c: its normalized records, those
\* of them that pass the stock filter, and the page info
collectionResult(c, stockFilter) ==
    LET products == [i \in 1..Len(c.products.edges) |->
                         normalize(c.products.edges[i])]
        filteredProducts ==
            SelectSeq(products, LAMBDA p : stockFilterKeeps(p, stockFilter))
    IN  [kind |-> "data",
         collection |-> [id |-> c.id,
                         title |-> c.title,
                         productsCount |-> c.productsCount,
                         products |-> filteredProducts,
                         pageInfo |-> c.products.pageInfo,
                         allProductsFromPage |-> products],
         stockFilter |-> stockFilter]

\* loader reading data.data.collection without the optional chaining
loader_unguarded(data, stockFilter) ==
    IF data.data = Nothing THEN [kind |-> "exception"]
    ELSE IF data.data[1].collection = Nothing THEN NotFound
    ELSE collectionResult(data.data[1].collection[1], stockFilter)

\* from the parsed response to what the loader returns or throws
loader(data, stockFilter) ==
    IF data.data = Nothing \/ data.data[1].collection = Nothing
    THEN NotFound
    ELSE collectionResult(data.data[1].collection[1], stockFilter)

-----------------------------------------------------------------------------
(* The cursor-paged products view *)

NoNavigation == [kind |-> "none"]
NoData == [kind |-> "none"]
NoFile == [kind |-> "none"]
NoEffects == [alert |-> "", file |-> NoFile]
NoResponse == [by |-> "none", queries |-> 0, errors |-> FALSE, data |-> Nothing]

\* the response a loader received to the one query it sent, with the loader
\* that received it
Received(by, data) ==
    [by |-> by, queries |-> 1, errors |-> data.errors, data |-> data.data]

Loaded == loaderData.kind = "data"

\* navigate(`?stock=...&direction=...&cursor=...`)
Navigation(stock, direction, cursor) ==
    [kind |-> "nav", stock |-> stock, direction |-> direction, cursor |-> cursor]

\* `${cursor}` of a pageInfo cursor in a URL template
CursorParam(c) == IF c = Nothing THEN Just(NullCursorToken) ELSE c

\* the tab the URL's stock param selects
TabOf(stock) == IF ParamOr(stock, "in-stock") = "sold-out" THEN 1 ELSE 0

\* filteredProducts comparing with the query as typed, not lowercased
filteredProducts_queryAsTyped(products, query) ==
    IF trim(query) = <<>>
    THEN products
    ELSE SelectSeq(products,
             LAMBDA p : \/ includes(toLowerCase(p.title), query)
                        \/ includes(toLowerCase(p.barcode), query)
                        \/ includes(toLowerCase(p.weight), query))

\* filteredProducts passing over the first record of the page
filteredProducts_skipFirst(products, query) ==
    IF trim(query) = <<>>
    THEN products
    ELSE LET q == toLowerCase(query)
         IN  SelectSeq(IF products = <<>> THEN <<>> ELSE Tail(products),
                 LAMBDA p : \/ includes(toLowerCase(p.title), q)
                            \/ includes(toLowerCase(p.barcode), q)
                            \/ includes(toLowerCase(p.weight), q))

\* the records the search box leaves of the loaded page
filteredProducts(products, query) ==
    IF trim(query) = <<>>
    THEN products
    ELSE LET q == toLowerCase(query)
         IN  SelectSeq(products,
                 LAMBDA p : \/ includes(toLowerCase(p.title), q)
                            \/ includes(toLowerCase(p.barcode), q)
                            \/ includes(toLowerCase(p.weight), q))

\* the records the table shows
Displayed ==
    IF Loaded THEN filteredProducts(loaderData.collection.products, searchQuery)
    ELSE <<>>

Quoted(s) == <<"\"">> \o s \o <<"\"">>

CsvHeaders ==
    << <<"Product Name">>, <<"Weight">>, <<"Price">>, <<"Currency">>,
       <<"Barcode">>, <<"Available Units">> >>

\* one data row of the export
csvRow(product) ==
    join(<< Quoted(escapeQuotes(product.title)),
            Quoted(product.weight),
            product.price.amount,
            product.price.currencyCode,
            Quoted(product.barcode),
            NumToString(product.availableUnits) >>, <<",">>)

\* csvContent adding every row before the rows already written
csvContent_newestFirst(productsToExport) ==
    <<"BOM">> \o join(<<join(CsvHeaders, <<",">>)>>
                       \o [i \in 1..Len(productsToExport) |->
                              csvRow(productsToExport[Len(productsToExport) - i + 1])],
                      <<"CR", "LF">>)

\* BOM + csvRows.join("\r\n")
csvContent(productsToExport) ==
    <<"BOM">> \o join(<<join(CsvHeaders, <<",">>)>>
                       \o [i \in 1..Len(productsToExport) |-> csvRow(productsToExport[i])],
                      <<"CR", "LF">>)

\* fileName with the label of the first tab whatever the tab
fileName_tabIgnored(title, tab) ==
    << (IF title = "" THEN "Products" ELSE title), "InStock", "Page", "YYYY-MM-DD" >>

\* the download attribute: the parts joined by "_", then ".csv"
fileName(title, tab) ==
    << (IF title = "" THEN "Products" ELSE title),
       (IF tab = 0 THEN "InStock" ELSE "SoldOut"),
       "Page", "YYYY-MM-DD" >>

\* productsToExport taken from the unfiltered page
productsToExport_unfiltered == loaderData.collection.allProductsFromPage

\* the records exportCurrentPage writes
productsToExport == loaderData.collection.products

\* exportCurrentPage without the check for an empty page
exportCurrentPage_noEmptyCheck ==
    /\ Loaded
    /\ out' = [alert |-> "",
               file |-> [kind |-> "csv",
                         name |-> fileName(loaderData.collection.title, selectedTab),
                         content |-> csvContent(productsToExport)]]
    /\ UNCHANGED <<shop, perPage, url, pending, loaderData, upstream, searchQuery,
                   selectedTab, visited, pageParam, prodCall, prodResult>>

\* The export handler. The button that calls it is disabled on an empty
\* page; the handler itself is modelled for every loaded page.
exportCurrentPage ==
    /\ Loaded
    /\ out' = IF Len(productsToExport) = 0
              THEN [alert |-> "No products to export", file |-> NoFile]
              ELSE [alert |-> "",
                    file |-> [kind |-> "csv",
                              name |-> fileName(loaderData.collection.title, selectedTab),
                              content |-> csvContent(productsToExport)]]
    /\ UNCHANGED <<shop, perPage, url, pending, loaderData, upstream, searchQuery,
                   selectedTab, visited, pageParam, prodCall, prodResult>>

SearchInputs == {<<>>, <<" ">>, <<"a">>, <<"B">>}

\* handleSearchChange asking the loader again for the first page
handleSearchChange_reloads(value) ==
    /\ Loaded
    /\ searchQuery' = value
    /\ pending' = Navigation(url.stock, Nothing, Nothing)
    /\ out' = NoEffects
    /\ UNCHANGED <<shop, perPage, url, loaderData, upstream,
                   selectedTab, visited, pageParam, prodCall, prodResult>>

handleSearchChange(value) ==
    /\ Loaded
    /\ searchQuery' = value
    /\ out' = NoEffects
    /\ UNCHANGED <<shop, perPage, url, pending, loaderData, upstream,
                   selectedTab, visited, pageParam, prodCall, prodResult>>

\* handleTabChange carrying the held end cursor into the new tab's request
handleTabChange_keepsCursor(newTab) ==
    /\ Loaded
    /\ selectedTab' = newTab
    /\ searchQuery' = <<>>
    /\ pending' = Navigation(Just(IF newTab = 0 THEN "in-stock" ELSE "sold-out"),
                             Just("next"),
                             loaderData.collection.pageInfo.endCursor)
    /\ out' = NoEffects
    /\ UNCHANGED <<shop, perPage, url, loaderData, upstream, visited, pageParam,
                   prodCall, prodResult>>

handleTabChange(newTab) ==
    /\ Loaded
    /\ selectedTab' = newTab
    /\ searchQuery' = <<>>
    /\ pending' = Navigation(Just(IF newTab = 0 THEN "in-stock" ELSE "sold-out"),
                             Nothing, Nothing)
    /\ out' = NoEffects
    /\ UNCHANGED <<shop, perPage, url, loaderData, upstream, visited, pageParam,
                   prodCall, prodResult>>

handlePreviousPage ==
    /\ Loaded
    /\ loaderData.collection.pageInfo.hasPreviousPage
    /\ pending' = Navigation(Just(ParamOr(url.stock, "in-stock")), Just("previous"),
                             CursorParam(loaderData.collection.pageInfo.startCursor))
    /\ out' = NoEffects
    /\ UNCHANGED <<shop, perPage, url, loaderData, upstream, searchQuery,
                   selectedTab, visited, pageParam, prodCall, prodResult>>

\* handleNextPage with the cursor left out of the URL
handleNextPage_noCursor ==
    /\ Loaded
    /\ loaderData.collection.pageInfo.hasNextPage
    /\ pending' = Navigation(Just(ParamOr(url.stock, "in-stock")), Just("next"), Nothing)
    /\ out' = NoEffects
    /\ UNCHANGED <<shop, perPage, url, loaderData, upstream, searchQuery,
                   selectedTab, visited, pageParam, prodCall, prodResult>>

\* handleNextPage taking the stock value from the selected tab
handleNextPage_tabStock ==
    /\ Loaded
    /\ loaderData.collection.pageInfo.hasNextPage
    /\ pending' = Navigation(Just(IF selectedTab = 0 THEN "in-stock" ELSE "sold-out"),
                             Just("next"),
                             CursorParam(loaderData.collection.pageInfo.endCursor))
    /\ out' = NoEffects
    /\ UNCHANGED <<shop, perPage, url, loaderData, upstream, searchQuery,
                   selectedTab, visited, pageParam, prodCall, prodResult>>

\* handleNextPage continuing from the start cursor of the page
handleNextPage_fromStart ==
    /\ Loaded
    /\ loaderData.collection.pageInfo.hasNextPage
    /\ pending' = Navigation(Just(ParamOr(url.stock, "in-stock")), Just("next"),
                             CursorParam(loaderData.collection.pageInfo.startCursor))
    /\ out' = NoEffects
    /\ UNCHANGED <<shop, perPage, url, loaderData, upstream, searchQuery,
                   selectedTab, visited, pageParam, prodCall, prodResult>>

handleNextPage ==
    /\ Loaded
    /\ loaderData.collection.pageInfo.hasNextPage
    /\ pending' = Navigation(Just(ParamOr(url.stock, "in-stock")), Just("next"),
                             CursorParam(loaderData.collection.pageInfo.endCursor))
    /\ out' = NoEffects
    /\ UNCHANGED <<shop, perPage, url, loaderData, upstream, searchQuery,
                   selectedTab, visited, pageParam, prodCall, prodResult>>

\* the page window a loader result holds
Window(result) ==
    [records |-> result.collection.products, pageInfo |-> result.collection.pageInfo]

\* The router runs the loader for the navigation in flight and commits the
\* new location with its data; the effect on searchParams then syncs the tab.
Deliver ==
    /\ pending.kind = "nav"
    /\ LET req == [stock |-> pending.stock, direction |-> pending.direction,
                   cursor |-> pending.cursor]
           direction == ParamOr(req.direction, "next")
           stockFilter == ParamOr(req.stock, "in-stock")
           data == CollectionResponse(shop, productsQuery(direction, req.cursor, perPage))
           result == loader(data, stockFilter)
       IN  /\ upstream' = Received("loader", data)
           /\ loaderData' = result
           /\ url' = req
           /\ selectedTab' = IF loaderData.kind = "none" \/ req # url
                             THEN TabOf(req.stock)
                             ELSE selectedTab
           /\ visited' = IF result.kind # "data" \/ direction # "next" THEN <<>>
                         ELSE IF req.cursor = Nothing THEN <<Window(result)>>
                         ELSE IF visited = <<>> THEN <<>>
                         ELSE Append(visited, Window(result))
    /\ pending' = NoNavigation
    /\ out' = NoEffects
    /\ UNCHANGED <<shop, perPage, searchQuery, pageParam, prodCall, prodResult>>

-----------------------------------------------------------------------------
(* The page-number variant of the route: one query for the whole collection, *)
(* stock tabs, search and pages computed in the component                    *)

\* products(first: 250) of the page-number variant's query
MaxFetched == 250

\* response.json() of its getCollection query
ListResponse(s) ==
    CollectionResponse(s, [take |-> "first", n |-> MaxFetched, cursor |-> Nothing])

\* an exception that is no Response, thrown out of a loader
Uncaught == [kind |-> "exception"]

\* from the parsed response to what the page-number loader returns or throws
loaderList(data) ==
    IF data.data = Nothing THEN Uncaught
    ELSE IF data.data[1].collection = Nothing THEN NotFound
    ELSE LET c == data.data[1].collection[1]
         IN  [kind |-> "list",
              collection |-> [id |-> c.id,
                              title |-> c.title,
                              products |-> [i \in 1..Len(c.products.edges) |->
                                               normalizeNode(c.products.edges[i].node)]]]

LoadedList == loaderData.kind = "list"

\* the records of the selected tab
stockFilteredProducts ==
    IF selectedTab = 0
    THEN SelectSeq(loaderData.collection.products, LAMBDA p : p.availableUnits > 0)
    ELSE SelectSeq(loaderData.collection.products, LAMBDA p : p.availableUnits = 0)

\* the records of the selected tab the search box leaves
filteredList == filteredProducts(stockFilteredProducts, searchQuery)

IsDigit(c) == \E d \in 1..10 : Digits[d] = c

RECURSIVE DigitsValue(_)
DigitsValue(ds) ==
    IF ds = <<>> THEN 0
    ELSE 10 * DigitsValue(SubSeq(ds, 1, Len(ds) - 1))
            + ((CHOOSE d \in 1..10 : Digits[d] = ds[Len(ds)]) - 1)

\* parseInt(s, 10): the empty tuple is NaN
parseInt(s) ==
    LET t == trimStart(s)
        signed == t # <<>> /\ t[1] \in {"-", "+"}
        body == IF signed THEN Tail(t) ELSE t
        k == Cardinality({i \in 1..Len(body) : \A j \in 1..i : IsDigit(body[j])})
    IN  IF k = 0 THEN Nothing
        ELSE IF signed /\ t[1] = "-" THEN Just(0 - DigitsValue(SubSeq(body, 1, k)))
        ELSE Just(DigitsValue(SubSeq(body, 1, k)))

\* Math.ceil(totalProducts / PRODUCTS_PER_PAGE)
totalPages == (Len(filteredList) + perPage - 1) \div perPage

\* Math.min(Math.max(1, parseInt(page || "1", 10)), totalPages || 1); NaN stays NaN
currentPage ==
    LET parsed == parseInt(StrOr(pageParam, <<"1">>))
    IN  IF parsed = Nothing THEN Nothing
        ELSE Just(Min(Max(1, parsed[1]), IF totalPages = 0 THEN 1 ELSE totalPages))

\* filteredProducts.slice(startIndex, endIndex); slice(NaN, NaN) is empty
paginatedProducts ==
    IF currentPage = Nothing THEN <<>>
    ELSE SubSeq(filteredList, (currentPage[1] - 1) * perPage + 1,
                Min(Len(filteredList), currentPage[1] * perPage))

\* setSearchParams({ page })
PageNavigation(page) == [kind |-> "page", page |-> Just(page)]

\* the Pagination buttons: previous and next page
handlePageChange(newPage) ==
    /\ LoadedList
    /\ totalPages > 1
    /\ currentPage # Nothing
    /\ \/ newPage = currentPage[1] - 1 /\ currentPage[1] > 1
       \/ newPage = currentPage[1] + 1 /\ currentPage[1] < totalPages
    /\ pending' = PageNavigation(NumToString(newPage))
    /\ out' = NoEffects
    /\ UNCHANGED <<shop, perPage, url, loaderData, upstream, searchQuery,
                   selectedTab, visited, pageParam, prodCall, prodResult>>

handleSearchChangeList(value) ==
    /\ LoadedList
    /\ searchQuery' = value
    /\ pending' = PageNavigation(<<"1">>)
    /\ out' = NoEffects
    /\ UNCHANGED <<shop, perPage, url, loaderData, upstream, selectedTab, visited,
                   pageParam, prodCall, prodResult>>

handleTabChangeList(newTab) ==
    /\ LoadedList
    /\ selectedTab' = newTab
    /\ searchQuery' = <<>>
    /\ pending' = PageNavigation(<<"1">>)
    /\ out' = NoEffects
    /\ UNCHANGED <<shop, perPage, url, loaderData, upstream, visited, pageParam,
                   prodCall, prodResult>>

\* the symbol en-US writes for the currency
CurrencySymbol(code) == <<"SYM">>

\* Intl.NumberFormat("en-US", {style: "currency", currency}).format(amount),
\* for a decimal string of at most two fraction digits: the symbol, the
\* integer digits in groups of three, and two fraction digits
formatPrice(price) ==
    LET amount == price.amount
        dots == SelectSeq(Indices(amount), LAMBDA i : amount[i] = ".")
        int == IF dots = <<>> THEN amount ELSE SubSeq(amount, 1, dots[1] - 1)
        frac == IF dots = <<>> THEN <<>> ELSE SubSeq(amount, dots[1] + 1, Len(amount))
        n == Len(int)
    IN  CurrencySymbol(price.currencyCode)
            \o join([i \in 1..n |-> IF i > 1 /\ (n - i + 1) % 3 = 0
                                    THEN <<",", int[i]>>
                                    ELSE <<int[i]>>], <<>>)
            \o <<".">>
            \o SubSeq(frac \o <<"0", "0">>, 1, 2)

ListHeaders ==
    << <<"Product Name">>, <<"Weight">>, <<"Price">>, <<"Barcode">>,
       <<"Available Units">> >>

\* one data row of exportToExcel
listRow(product) ==
    join(<< Quoted(escapeQuotes(product.title)),
            Quoted(product.weight),
            formatPrice(product.price),
            Quoted(product.barcode),
            NumToString(product.availableUnits) >>, <<",">>)

\* csvRows.join("\n")
listContent(products) ==
    join(<<join(ListHeaders, <<",">>)>>
            \o [i \in 1..Len(products) |-> listRow(products[i])],
         <<"LF">>)

listFileName(title, tab) ==
    << (IF title = "" THEN "Products" ELSE title),
       (IF tab = 0 THEN "InStock" ELSE "SoldOut"),
       "YYYY-MM-DD" >>

\* The export handler of the page-number variant; like exportCurrentPage it
\* is modelled for every loaded list, also where its button is disabled.
exportToExcel ==
    /\ LoadedList
    /\ out' = IF Len(stockFilteredProducts) = 0
              THEN [alert |-> "No products to export", file |-> NoFile]
              ELSE [alert |-> "",
                    file |-> [kind |-> "csv",
                              name |-> listFileName(loaderData.collection.title, selectedTab),
                              content |-> listContent(stockFilteredProducts)]]
    /\ UNCHANGED <<shop, perPage, url, pending, loaderData, upstream, searchQuery,
                   selectedTab, visited, pageParam, prodCall, prodResult>>

\* The router runs the page-number loader for the new page param and commits
\* the location with the data.
DeliverList ==
    /\ pending.kind = "page"
    /\ upstream' = Received("loaderList", ListResponse(shop))
    /\ loaderData' = loaderList(ListResponse(shop))
    /\ pageParam' = pending.page
    /\ pending' = NoNavigation
    /\ out' = NoEffects
    /\ UNCHANGED <<shop, perPage, url, searchQuery, selectedTab, visited,
                   prodCall, prodResult>>

-----------------------------------------------------------------------------
(* The product details loader *)

\* a Response thrown with the given status
ThrownResponse(status) == [kind |-> "response", status |-> status]

\* the product the upstream API holds under the requested id
ProductEntity == [id |-> "gid://shopify/Product/7", title |-> <<"A", "b">>]

\* what response.json() of the getProduct query can be
ProductResponses ==
    [errors : BOOLEAN,
     data : {Nothing, Just([product |-> Nothing]), Just([product |-> Just(ProductEntity)])}]

\* What the loader's collaborators do in one call: authenticate.admin returns
\* the admin client, throws a redirect Response or throws an Error;
\* admin.graphql returns a response or throws; the response parses to data.
ProductEnvs ==
    {[auth |-> a, graphql |-> g, data |-> d] :
        a \in {"ok", "redirect", "error"}, g \in {"ok", "throws"}, d \in ProductResponses}

\* params.id of the route: absent, empty or a product id
ProductIds == {Nothing, Just(<<>>), Just(<<"7">>)}

\* the body of the try block: what it returns or throws, and the number of
\* upstream queries it issued
productLoaderTry(params, env) ==
    IF env.auth = "redirect" THEN [result |-> ThrownResponse(302), graphqlCalls |-> 0]
    ELSE IF env.auth = "error" THEN [result |-> Uncaught, graphqlCalls |-> 0]
    ELSE IF params.id = Nothing \/ params.id = Just(<<>>)
    THEN [result |-> ThrownResponse(400), graphqlCalls |-> 0]
    ELSE IF env.graphql = "throws" THEN [result |-> Uncaught, graphqlCalls |-> 1]
    ELSE IF env.data.errors THEN [result |-> ThrownResponse(500), graphqlCalls |-> 1]
    ELSE IF env.data.data = Nothing \/ env.data.data[1].product = Nothing
    THEN [result |-> ThrownResponse(404), graphqlCalls |-> 1]
    ELSE [result |-> [kind |-> "data", product |-> env.data.data[1].product[1]],
          graphqlCalls |-> 1]

\* productLoader answering whatever was thrown with status 500
productLoader_flattens(params, env) ==
    LET attempt == productLoaderTry(params, env)
    IN  IF attempt.result.kind # "data"
        THEN [attempt EXCEPT !.result = ThrownResponse(500)]
        ELSE attempt

\* productLoader running the try block once more after an exception
productLoader_retries(params, env) ==
    LET attempt == productLoaderTry(params, env)
    IN  IF attempt.result = Uncaught
        THEN [result |-> ThrownResponse(500), graphqlCalls |-> 2 * attempt.graphqlCalls]
        ELSE attempt

\* the loader: a Response thrown in the try block is rethrown as it is, any
\* other exception becomes a Response with status 500
productLoader(params, env) ==
    LET attempt == productLoaderTry(params, env)
    IN  IF attempt.result = Uncaught
        THEN [attempt EXCEPT !.result = ThrownResponse(500)]
        ELSE attempt

\* A request for the product details route runs the loader once.
ProductRequest(params, env) ==
    /\ prodCall' = [kind |-> "call", params |-> params, env |-> env]
    /\ prodResult' = productLoader(params, env)
    /\ UNCHANGED <<shop, perPage, url, pending, loaderData, upstream, searchQuery,
                   selectedTab, out, visited, pageParam>>

PageParams == {Nothing, Just(<<"0">>), Just(<<"2">>), Just(<<"x">>)}

StockParams == {Nothing, Just("in-stock"), Just("sold-out"), Just("other")}
DirectionParams == {Nothing, Just("previous")}

Shops(nodes, maxLen) ==
    {[mode |-> "ok", id |-> "gid", title |-> "Rings", products |-> WithIds(ps)] :
        ps \in SeqsUpTo(nodes, maxLen)}
    \cup {[mode |-> m, id |-> "gid", title |-> "Rings", products |-> <<>>] :
            m \in {"absent", "failing", "denied"}}

\* what every specification starts from, whatever its shop and first request
InitView ==
    /\ url = [stock |-> Nothing, direction |-> Nothing, cursor |-> Nothing]
    /\ loaderData = NoData
    /\ upstream = NoResponse
    /\ searchQuery = <<>>
    /\ selectedTab = 0
    /\ out = NoEffects
    /\ visited = <<>>
    /\ pageParam = Nothing
    /\ prodCall = [kind |-> "none"]
    /\ prodResult = [kind |-> "none"]

\* The products page of any collection, in either variant of the route: the
\* cursor-paged one opened with any stock and direction param in the URL, the
\* page-number one with any page param.
Init ==
    /\ shop \in Shops(ShopNodes, MaxProducts)
    /\ perPage = PageSize
    /\ pending \in {Navigation(s, d, Nothing) : s \in StockParams, d \in DirectionParams}
                    \cup {[kind |-> "page", page |-> pg] : pg \in PageParams}
    /\ InitView

Next ==
    \/ Deliver
    \/ \E value \in SearchInputs : handleSearchChange(value)
    \/ \E newTab \in {0, 1} : handleTabChange(newTab)
    \/ handlePreviousPage
    \/ handleNextPage
    \/ exportCurrentPage
    \/ DeliverList
    \/ \E newPage \in 1..MaxProducts : handlePageChange(newPage)
    \/ \E value \in SearchInputs : handleSearchChangeList(value)
    \/ \E newTab \in {0, 1} : handleTabChangeList(newTab)
    \/ exportToExcel

Spec == Init /\ [][Next]_vars

-----------------------------------------------------------------------------
(* Forward traversal of one collection under one stock filter *)

\* longest collection of the traversal specification
TraverseLen == 5

OkShops(nodes, maxLen) == {s \in Shops(nodes, maxLen) : s.mode = "ok"}

\* The page is opened with no cursor and direction next (given or absent).
InitTraverse ==
    /\ shop \in OkShops({NodeFull, NodeSoldOut}, TraverseLen)
    /\ perPage = PageSize
    /\ pending \in {Navigation(s, d, Nothing) :
                        s \in {Nothing, Just("sold-out")}, d \in {Nothing, Just("next")}}
    /\ InitView

NextTraverse ==
    \/ Deliver
    \/ handleNextPage

\* Next is pressed as long as it is offered, and every navigation is delivered.
SpecTraverse == InitTraverse /\ [][NextTraverse]_vars /\ WF_vars(NextTraverse)

-----------------------------------------------------------------------------
(* The scenario of 35 products, 32 of them in stock, at the route's page size *)

InStockNode == NodeFull
SoldOutNode == NodeSoldOut

ScenarioShop(soldOut) ==
    [mode |-> "ok", id |-> "gid", title |-> "Rings",
     products |-> WithIds([i \in 1..35 |->
                              IF i \in soldOut THEN SoldOutNode ELSE InStockNode])]

\* every choice of the 3 sold-out positions among the 35
ScenarioSoldOutSets ==
    {S \in {{a, b, c} : a \in 1..33, b \in 2..34, c \in 3..35} : Cardinality(S) = 3}

InitScenario ==
    /\ \E soldOut \in ScenarioSoldOutSets : shop = ScenarioShop(soldOut)
    /\ perPage = PRODUCTS_PER_PAGE
    /\ pending = Navigation(Just("in-stock"), Nothing, Nothing)
    /\ InitView

SpecScenario == InitScenario /\ [][NextTraverse]_vars

-----------------------------------------------------------------------------
(* Export of pages whose titles and barcodes hold quotes and commas *)

\* most records on an exported page of the export specification
MaxCsvRecords == 2

CsvTitles == {Nothing, Just(<<"a">>), Just(<<"\"">>), Just(<<"a", ",", "\"", "b">>)}
CsvBarcodes == {Nothing, Just(<<"a">>), Just(<<",">>), Just(<<"\"", ",">>)}

CsvNodes ==
    {[title |-> t, totalInventory |-> Just(12),
      featuredImage |-> Nothing,
      priceRangeV2 |-> [minVariantPrice |-> Money(<<"9", ".", "5">>)],
      variants |-> <<[barcode |-> b,
                      weight |-> Just([value |-> Just(5), unit |-> Just(<<"G">>)])]>>] :
        t \in CsvTitles, b \in CsvBarcodes}

InitCsv ==
    /\ shop \in OkShops(CsvNodes, MaxCsvRecords)
    /\ perPage = PageSize
    /\ pending = Navigation(Nothing, Nothing, Nothing)
    /\ InitView

NextCsv ==
    \/ Deliver
    \/ exportCurrentPage

SpecCsv == InitCsv /\ [][NextCsv]_vars

-----------------------------------------------------------------------------
(* Searching a loaded page, in either variant of the route *)

\* longest text typed into the search box
MaxQueryLen == 2

SearchAlphabet == {"a", "B", " "}

SearchStrings == SeqsUpTo(SearchAlphabet, MaxQueryLen)

InitSearch ==
    /\ shop \in OkShops(ShopNodes, MaxProducts)
    /\ perPage = MaxProducts
    /\ pending \in {Navigation(s, Nothing, Nothing) : s \in {Nothing, Just("sold-out")}}
                    \cup {[kind |-> "page", page |-> Nothing]}
    /\ InitView

NextSearch ==
    \/ Deliver
    \/ DeliverList
    \/ \E value \in SearchStrings : handleSearchChange(value)
    \/ \E value \in SearchStrings : handleSearchChangeList(value)

SpecSearch == InitSearch /\ [][NextSearch]_vars

-----------------------------------------------------------------------------
(* The loaders against every shape of upstream response *)

\* largest collection the loaders are run against
MaxLoaderProducts == 1

InitLoader ==
    /\ shop \in Shops(ShopNodes, MaxLoaderProducts)
    /\ perPage = PageSize
    /\ pending \in {Navigation(s, Nothing, Nothing) : s \in StockParams}
                    \cup {[kind |-> "page", page |-> Nothing]}
    /\ InitView

NextLoader ==
    \/ Deliver
    \/ DeliverList
    \/ \E id \in ProductIds, env \in ProductEnvs : ProductRequest([id |-> id], env)

SpecLoader == InitLoader /\ [][NextLoader]_vars

-----------------------------------------------------------------------------
(* The cursor-paged route opened at any location: the loader reads stock,    *)
(* direction and cursor from whatever URL it is requested with               *)

\* The page is requested at a location given from outside the component (a
\* link, the history, the address bar), its cursor one of the collection's.
\* A traversal by the Next button that was under way ends here.
OpenLocation(stock, direction, cursor) ==
    /\ pending' = Navigation(stock, direction, cursor)
    /\ out' = NoEffects
    /\ visited' = <<>>
    /\ UNCHANGED <<shop, perPage, url, loaderData, upstream, searchQuery,
                   selectedTab, pageParam, prodCall, prodResult>>

LocationDirections == {Nothing, Just("next"), Just("previous")}

InitLocation ==
    /\ shop \in OkShops({NodeFull, NodeSoldOut}, MaxProducts)
    /\ perPage = PageSize
    /\ pending = Navigation(Nothing, Nothing, Nothing)
    /\ InitView

NextLocation ==
    \/ Deliver
    \/ handlePreviousPage
    \/ handleNextPage
    \/ \E stock \in {Nothing, Just("sold-out")}, direction \in LocationDirections,
          cursor \in {Nothing} \cup {Just(c) : c \in 1..Len(shop.products)} :
           OpenLocation(stock, direction, cursor)

SpecLocation == InitLocation /\ [][NextLocation]_vars

-----------------------------------------------------------------------------
(* A CSV reader after RFC 4180: fields separated by commas, records by CRLF, *)
(* a field either plain (no quote in it) or enclosed in quotes with every    *)
(* quote inside doubled.                                                     *)

QuoteCount(s, i) == Cardinality({j \in 1..(i - 1) : s[j] = "\""})

\* position i of s lies outside every quoted field
OutsideQuotes(s, i) == QuoteCount(s, i) % 2 = 0

\* s cut at the separators (each of the given width) that start at seps
Pieces(s, seps, width) ==
    [k \in 1..(Len(seps) + 1) |->
        SubSeq(s, IF k = 1 THEN 1 ELSE seps[k - 1] + width,
                  IF k = Len(seps) + 1 THEN Len(s) ELSE seps[k] - 1)]

\* record separators: CRLF outside quotes
CsvLines(doc) ==
    Pieces(doc,
           SelectSeq(Indices(doc),
                     LAMBDA i : /\ doc[i] = "CR"
                                /\ i < Len(doc)
                                /\ doc[i + 1] = "LF"
                                /\ OutsideQuotes(doc, i)),
           2)

\* field separators: commas outside quotes
CsvFields(line) ==
    Pieces(line,
           SelectSeq(Indices(line), LAMBDA i : line[i] = "," /\ OutsideQuotes(line, i)),
           1)

\* a field as written is either plain, with no quote and no line break in
\* it, or enclosed in quotes with the quotes inside in adjacent pairs
FieldWellFormed(raw) ==
    IF \A i \in 1..Len(raw) : raw[i] # "\""
    THEN \A i \in 1..Len(raw) : raw[i] \notin {"CR", "LF"}
    ELSE /\ Len(raw) >= 2
         /\ raw[1] = "\""
         /\ raw[Len(raw)] = "\""
         /\ LET inner == SubSeq(raw, 2, Len(raw) - 1)
            IN  /\ QuoteCount(inner, Len(inner) + 1) % 2 = 0
                /\ \A i \in 1..Len(inner) :
                       (inner[i] = "\"" /\ OutsideQuotes(inner, i))
                           => (i < Len(inner) /\ inner[i + 1] = "\"")

\* the value of a well-formed field: a quoted one loses its enclosing quotes
\* and the first quote of every pair
FieldValue(raw) ==
    IF \A i \in 1..Len(raw) : raw[i] # "\""
    THEN raw
    ELSE LET inner == SubSeq(raw, 2, Len(raw) - 1)
             kept  == SelectSeq(Indices(inner),
                                LAMBDA i : ~(inner[i] = "\"" /\ OutsideQuotes(inner, i)))
         IN  [k \in 1..Len(kept) |-> inner[kept[k]]]

\* the rows of a document, or ok = FALSE when it is not well formed
csvRows(doc) ==
    LET lines == CsvLines(doc)
        raws  == [k \in 1..Len(lines) |-> CsvFields(lines[k])]
    IN  IF \A k \in 1..Len(raws) : \A f \in 1..Len(raws[k]) : FieldWellFormed(raws[k][f])
        THEN [ok |-> TRUE,
              rows |-> [k \in 1..Len(raws) |->
                           [f \in 1..Len(raws[k]) |-> FieldValue(raws[k][f])]]]
        ELSE [ok |-> FALSE, rows |-> <<>>]

\* the rows of a document, read after its byte-order marker
parseCsv(content) ==
    IF content # <<>> /\ Head(content) = "BOM"
    THEN csvRows(Tail(content))
    ELSE csvRows(content)

-----------------------------------------------------------------------------
(* Claims *)

Range(f) == {f[i] : i \in DOMAIN f}

Ids(records) == [i \in 1..Len(records) |-> records[i].id]

\* the records of R the loader's filter keeps under the stock value f
partition(R, f) == {p \in Range(R) : stockFilterKeeps(p, f)}

\* C1: the records of every loaded page are split by the two stock filters:
\* each record of the page is kept by in-stock or by sold-out, and by one only.
C1_StockPartition ==
    Loaded =>
        LET R == loaderData.collection.allProductsFromPage
        IN  /\ partition(R, "in-stock") \cup partition(R, "sold-out") = Range(R)
            /\ partition(R, "in-stock") \cap partition(R, "sold-out") = {}

NoWindowRepeats ==
    \A i, j \in 1..Len(visited) : i # j => visited[i] # visited[j]

TraversalDone ==
    /\ Loaded
    /\ pending.kind = "none"
    /\ ~loaderData.collection.pageInfo.hasNextPage

\* C2: forward traversal from the empty cursor ends: no window is visited
\* twice, and from some point on the last loader result reports no next page.
C2_TraversalTerminates == []NoWindowRepeats /\ <>[]TraversalDone

\* C2 witness: a traversal of three windows that has ended
C2_Witness == TraversalDone /\ Len(visited) >= 3

InStockIds(lo, hi) ==
    SelectSeq([i \in 1..(hi - lo + 1) |-> lo + i - 1],
              LAMBDA i : shop.products[i].totalInventory = InStockNode.totalInventory)

\* C3 as stated: the first page holds 30 records and offers a next page, the
\* second holds the remaining 2 and offers none.
C3_ThirtyThenRest ==
    /\ Len(visited) >= 1 =>
           /\ Len(visited[1].records) = 30
           /\ visited[1].pageInfo.hasNextPage
    /\ Len(visited) >= 2 =>
           /\ Len(visited[2].records) = 2
           /\ ~visited[2].pageInfo.hasNextPage

\* C3 amended: the first page holds the in-stock products among the first 30
\* of the collection and offers a next page; the second holds the in-stock
\* products among the last 5 and offers none; together they hold all 32.
C3_InStockOfEachWindow ==
    /\ Len(visited) >= 1 =>
           /\ Ids(visited[1].records) = InStockIds(1, 30)
           /\ visited[1].pageInfo.hasNextPage
    /\ Len(visited) >= 2 =>
           /\ Ids(visited[2].records) = InStockIds(31, 35)
           /\ ~visited[2].pageInfo.hasNextPage
           /\ Len(visited[1].records) + Len(visited[2].records) = 32
    /\ Len(visited) <= 2

\* C3 witness: both pages fetched, the first with fewer than 30 records
C3_Witness ==
    /\ Len(visited) = 2
    /\ Len(visited[1].records) < 30
    /\ Len(visited[2].records) > 2

\* the field values of a record, in the order of the header row
FieldValues(p) ==
    <<p.title, p.weight, p.price.amount, p.price.currencyCode, p.barcode,
      NumToString(p.availableUnits)>>

\* C4: reading an exported document back gives one row per exported record,
\* each with as many fields as the header row and holding the record's title,
\* weight, price, currency, barcode and available units.
C4_CsvRoundTrip ==
    out.file.kind = "csv" =>
        LET parsed == parseCsv(out.file.content)
            records == loaderData.collection.products
        IN  /\ parsed.ok
            /\ Len(parsed.rows) = Len(records) + 1
            /\ \A i \in 1..Len(records) :
                   /\ Len(parsed.rows[i + 1]) = Len(parsed.rows[1])
                   /\ parsed.rows[i + 1] = FieldValues(records[i])

\* a query of whitespace only (the empty query included)
Blank(q) == \A i \in 1..Len(q) : q[i] \in {" ", "\t", "\n"}

\* C5: a blank search query filters nothing: under an empty or whitespace-only
\* query the records shown are the records the search was given, in either
\* variant of the route.
C5_BlankQueryIdentity ==
    /\ (Loaded /\ Blank(searchQuery)) =>
           Displayed = loaderData.collection.products
    /\ (LoadedList /\ Blank(searchQuery)) =>
           filteredList = stockFilteredProducts

\* C5 witness: two spaces typed over a page with a record that holds no space
C5_Witness ==
    /\ Loaded
    /\ searchQuery = <<" ", " ">>
    /\ \E i \in 1..Len(loaderData.collection.products) :
           LET p == loaderData.collection.products[i]
           IN  \A f \in {p.title, p.barcode, p.weight} : \A k \in 1..Len(f) : f[k] # " "

\* C6: searching the search result again with the same query changes nothing.
C6_SearchIdempotent ==
    /\ Loaded => filteredProducts(Displayed, searchQuery) = Displayed
    /\ LoadedList => filteredProducts(filteredList, searchQuery) = filteredList

\* C6 witness: a query that keeps some records of the page and drops others
C6_Witness ==
    /\ Loaded
    /\ ~Blank(searchQuery)
    /\ Displayed # <<>>
    /\ Len(Displayed) < Len(loaderData.collection.products)

\* the letters of the search alphabet and of the record fields, by case
CasePairs ==
    {<<"A", "a">>, <<"B", "b">>, <<"G", "g">>, <<"K", "k">>, <<"N", "n">>}

SameLetter(c, d) == c = d \/ <<c, d>> \in CasePairs \/ <<d, c>> \in CasePairs

\* q occurs in f as a run of characters, case ignored
OccursIgnoringCase(q, f) ==
    \E k \in 0..(Len(f) - Len(q)) : \A i \in 1..Len(q) : SameLetter(f[k + i], q[i])

MatchesIgnoringCase(p, q) ==
    \E f \in {p.title, p.barcode, p.weight} : OccursIgnoringCase(q, f)

\* the records of a sequence that match q, in the order of the sequence
Matching(records, q) == SelectSeq(records, LAMBDA p : MatchesIgnoringCase(p, q))

\* C7: under a non-blank query the records shown are those whose title,
\* barcode or weight text contains the query, case ignored, in the order they
\* had before the search.
C7_SearchMatches ==
    /\ (Loaded /\ ~Blank(searchQuery)) =>
           Displayed = Matching(loaderData.collection.products, searchQuery)
    /\ (LoadedList /\ ~Blank(searchQuery)) =>
           filteredList = Matching(stockFilteredProducts, searchQuery)

\* C7 witness: an upper-case query finds a record by its lower-case title and
\* drops another
C7_Witness ==
    /\ Loaded
    /\ searchQuery = <<"B">>
    /\ \E i \in 1..Len(Displayed) : Displayed[i].title = <<"b">>
    /\ Len(Displayed) < Len(loaderData.collection.products)

\* the export has no record to write
NothingToExport ==
    \/ Loaded /\ loaderData.collection.products = <<>>
    \/ LoadedList /\ stockFilteredProducts = <<>>

\* C8: an export over an empty record set writes no file, shows the notice
\* "No products to export" and leaves the tab, the query, the loaded data and
\* the location as they were.
C8_EmptyExportNotice ==
    [][((exportCurrentPage \/ exportToExcel) /\ NothingToExport) =>
           /\ out'.file = NoFile
           /\ out'.alert = "No products to export"
           /\ UNCHANGED <<selectedTab, searchQuery, loaderData, url, pageParam,
                          pending>>]_vars

\* C8 witness: the notice shown over an empty page
C8_Witness ==
    /\ NothingToExport
    /\ out.alert = "No products to export"
    /\ out.file = NoFile

CollectionAbsent ==
    /\ upstream.by = "loader"
    /\ upstream.data = Nothing \/ upstream.data[1].collection = Nothing

\* the product loader received a response without the product
ProductAbsent ==
    /\ prodCall.kind = "call"
    /\ prodResult.graphqlCalls = 1
    /\ prodCall.env.graphql = "ok"
    /\ prodCall.env.data.data = Nothing \/ prodCall.env.data.data[1].product = Nothing

\* C10 as stated: a loader that receives no entity for the requested id
\* throws a response with status 404.
C10_AbsentEntityIs404 ==
    /\ CollectionAbsent => loaderData = ThrownResponse(404)
    /\ ProductAbsent => prodResult.result = ThrownResponse(404)

\* C10 amended: the collection loader that receives no collection throws a
\* response with status 404; the product loader that receives no product
\* throws one with status 404 when the response has no errors member, and
\* with status 500 when it has one.
C10_AbsentEntityIs404UnlessErrors ==
    /\ CollectionAbsent => loaderData = ThrownResponse(404)
    /\ ProductAbsent =>
           prodResult.result =
               ThrownResponse(IF prodCall.env.data.errors THEN 500 ELSE 404)

\* C10 witness: both loaders have answered a missing entity with 404, the
\* collection loader on an error payload
C10_Witness ==
    /\ CollectionAbsent
    /\ upstream.errors
    /\ ProductAbsent
    /\ ~prodCall.env.data.errors
    /\ prodResult.result = ThrownResponse(404)

\* C11: a loader that receives an error payload (an errors member and no
\* entity) ends the request with a response of status 500, the collection
\* loader as well as the product loader.
C11_ErrorPayloadIs500 ==
    /\ (CollectionAbsent /\ upstream.errors) => loaderData = ThrownResponse(500)
    /\ (ProductAbsent /\ prodCall.env.data.errors) =>
           prodResult.result = ThrownResponse(500)

\* the positions, in the collection of L products, of the n items a request
\* with the given direction and cursor asks for
RequestedPositions(L, direction, cursor, n) ==
    IF direction = "next"
    THEN IF cursor = Nothing
         THEN {i \in 1..L : i <= n}
         ELSE {i \in 1..L : cursor[1] < i /\ i <= cursor[1] + n}
    ELSE IF cursor = Nothing
         THEN {i \in 1..L : i > L - n}
         ELSE {i \in 1..L : cursor[1] - n <= i /\ i < cursor[1]}

\* C12: the page a request loads holds, in collection order, the first n
\* items (direction next, no cursor), the last n (previous, no cursor), the n
\* strictly after the cursor (next with cursor) or the n strictly before it
\* (previous with cursor), n the page size; no direction param means next.
C12_RequestedWindow ==
    Loaded =>
        LET ids == Ids(loaderData.collection.allProductsFromPage)
            direction == IF url.direction = Nothing THEN "next" ELSE url.direction[1]
        IN  /\ Range(ids) = RequestedPositions(Len(shop.products), direction,
                                               url.cursor, perPage)
            /\ \A i, j \in 1..Len(ids) : i < j => ids[i] < ids[j]

\* C12 witness: a full page loaded backwards from a cursor
C12_Witness ==
    /\ Loaded
    /\ url.direction = Just("previous")
    /\ url.cursor # Nothing
    /\ Len(loaderData.collection.allProductsFromPage) = perPage

\* the startCursor of the first window of the collection
FirstStartCursor ==
    Connection(shop.products, [take |-> "first", n |-> perPage, cursor |-> Nothing])
        .pageInfo.startCursor

\* the page was requested backwards from the start of the first window
PreviousOfFirstPage ==
    /\ Loaded
    /\ url.direction = Just("previous")
    /\ url.cursor # Nothing
    /\ url.cursor = FirstStartCursor

\* C13: the page before the first page is empty: a request with direction
\* previous and the first window's startCursor loads no record and reports
\* no previous page.
C13_PreviousOfFirstIsEmpty ==
    PreviousOfFirstPage =>
        /\ loaderData.collection.allProductsFromPage = <<>>
        /\ loaderData.collection.products = <<>>
        /\ ~loaderData.collection.pageInfo.hasPreviousPage

\* C13 witness: the request made against a collection of more than one page
C13_Witness ==
    /\ PreviousOfFirstPage
    /\ Len(shop.products) > perPage
    /\ loaderData.collection.products = <<>>

\* the request in flight carries a cursor only together with the stock filter
\* of the loaded page, and the cursor is one of that page's
CursorWithItsFilter ==
    (pending.kind = "nav" /\ pending.cursor # Nothing) =>
        /\ Loaded
        /\ ParamOr(pending.stock, "in-stock") = loaderData.stockFilter
        /\ pending.cursor \in {loaderData.collection.pageInfo.startCursor,
                                loaderData.collection.pageInfo.endCursor}

\* a request issued from a loaded page for another stock filter than the
\* page's has no cursor and no direction
OtherFilterStartsOver ==
    (/\ Loaded
     /\ pending' # pending
     /\ pending'.kind = "nav"
     /\ ParamOr(pending'.stock, "in-stock") # loaderData.stockFilter) =>
        pending'.cursor = Nothing /\ pending'.direction = Nothing

\* a tab change asks for the new tab's stock value, with no cursor and no
\* direction
TabChangeStartsOver ==
    \A newTab \in {0, 1} :
        handleTabChange(newTab) =>
            pending' = Navigation(Just(IF newTab = 0 THEN "in-stock" ELSE "sold-out"),
                                  Nothing, Nothing)

\* C14: whatever pages and tabs were visited, no request of the page joins a
\* cursor with a stock filter other than the one the cursor was returned
\* under, and a tab change asks for the new stock value with no cursor and no
\* direction.
C14_CursorsDieWithFilter ==
    /\ []CursorWithItsFilter
    /\ [][OtherFilterStartsOver /\ TabChangeStartsOver]_vars

\* C14 witness: the tab is changed on a page that was reached with a cursor
C14_Witness ==
    /\ Loaded
    /\ url.cursor # Nothing
    /\ loaderData.stockFilter = "in-stock"
    /\ pending = Navigation(Just("sold-out"), Nothing, Nothing)

\* s wrapped in double quotes, every double quote inside it doubled
QuotedField(s) ==
    <<"\"">>
        \o join([i \in 1..Len(s) |-> IF s[i] = "\"" THEN <<"\"", "\"">> ELSE <<s[i]>>],
                <<>>)
        \o <<"\"">>

\* the data row of a record with its string fields quoted and its number bare
QuotedRow(p) ==
    join(<< QuotedField(p.title), QuotedField(p.weight), p.price.amount,
            QuotedField(p.price.currencyCode), QuotedField(p.barcode),
            NumToString(p.availableUnits) >>, <<",">>)

\* C15: in every data row of an export the title, the weight, the currency
\* code and the barcode are wrapped in double quotes with every quote inside
\* doubled, and the available units are written bare.
C15_StringFieldsQuoted ==
    (out.file.kind = "csv" /\ Loaded) =>
        LET records == loaderData.collection.products
        IN  out.file.content =
                <<"BOM">> \o join(<<join(CsvHeaders, <<",">>)>>
                                    \o [i \in 1..Len(records) |-> QuotedRow(records[i])],
                                  <<"CR", "LF">>)

\* the records the export in the state was made from
ExportedRecords ==
    IF Loaded THEN loaderData.collection.products ELSE stockFilteredProducts

\* the header row of an export, as written
HeaderLine ==
    <<"Product Name", ",", "Weight", ",", "Price", ",", "Currency", ",",
      "Barcode", ",", "Available Units">>

\* doc is a byte-order marker, the header row and n more rows, with CR LF
\* between rows and nothing after the last
DocumentLayout(doc, n) ==
    /\ doc # <<>>
    /\ Head(doc) = "BOM"
    /\ LET body == Tail(doc)
           lines == CsvLines(body)
       IN  /\ Len(lines) = n + 1
           /\ lines[1] = HeaderLine
           /\ \A k \in 1..Len(lines) :
                  lines[k] # <<>> /\ \A i \in 1..Len(lines[k]) : lines[k][i] \notin {"CR", "LF"}

\* C16: every exported document starts with the byte-order marker and the
\* header row Product Name,Weight,Price,Currency,Barcode,Available Units, and
\* goes on with one row per exported record, the rows separated by CR LF and
\* the last one not terminated.
C16_DocumentLayout ==
    out.file.kind = "csv" => DocumentLayout(out.file.content, Len(ExportedRecords))

\* C17: the exporter neither sorts nor drops: the export has one data row per
\* record of its input, the i-th row written from the i-th record, so that
\* the rows depend on the record sequence alone.
C17_ExportKeepsOrder ==
    (out.file.kind = "csv" /\ Loaded) =>
        LET lines == CsvLines(Tail(out.file.content))
            records == loaderData.collection.products
        IN  /\ Len(lines) = Len(records) + 1
            /\ \A i \in 1..Len(records) : lines[i + 1] = csvRow(records[i])

\* C17 witness: an export of two records with different rows
C17_Witness ==
    /\ out.file.kind = "csv"
    /\ Loaded
    /\ Len(loaderData.collection.products) = 2
    /\ csvRow(loaderData.collection.products[1]) # csvRow(loaderData.collection.products[2])

\* the label of the selected tab
TabLabel == IF selectedTab = 0 THEN "InStock" ELSE "SoldOut"

\* C18 as stated: every exported file is named by collection title, stock
\* label and date and nothing else, at every export call site.
C18_NameIsTitleLabelDate ==
    out.file.kind = "csv" =>
        out.file.name = <<loaderData.collection.title, TabLabel, "YYYY-MM-DD">>

\* C18 amended: the file of the page-number variant is named by collection
\* title, label of the selected tab and date; the file of the cursor-paged
\* view carries the extra component Page between label and date.
C18_NameByCallSite ==
    out.file.kind = "csv" =>
        /\ LoadedList =>
               out.file.name = <<loaderData.collection.title, TabLabel, "YYYY-MM-DD">>
        /\ Loaded =>
               out.file.name =
                   <<loaderData.collection.title, TabLabel, "Page", "YYYY-MM-DD">>

\* C18 witness: an export of the sold-out tab of the cursor-paged view
C18_Witness ==
    /\ out.file.kind = "csv"
    /\ Loaded
    /\ selectedTab = 1
    /\ Len(out.file.name) = 4

\* the weight value of a node's first variant, if there is one
WeightOf(node) ==
    IF node.variants = <<>> \/ node.variants[1].weight = Nothing
    THEN Nothing
    ELSE node.variants[1].weight

\* the weight string a node is to get: value and lower-case unit when the
\* first variant has a weight value, zero included, N/A when it has none
WeightString(node) ==
    IF WeightOf(node) # Nothing /\ WeightOf(node)[1].value # Nothing
    THEN NumToString(WeightOf(node)[1].value[1]) \o <<" ">>
            \o (IF WeightOf(node)[1].unit = Nothing
                THEN <<>>
                ELSE toLowerCase(WeightOf(node)[1].unit[1]))
    ELSE <<"N", "/", "A">>

\* every record the loader made, normalized from the node of its id
NormalizedRecords ==
    IF Loaded THEN loaderData.collection.allProductsFromPage
    ELSE IF LoadedList THEN loaderData.collection.products
    ELSE <<>>

\* C19: the weight of every normalized record is "<value> <unit in lower
\* case>" when the first variant of its node has a weight value, the value 0
\* included, and "N/A" exactly when it has none.
C19_WeightString ==
    \A i \in 1..Len(NormalizedRecords) :
        NormalizedRecords[i].weight = WeightString(shop.products[NormalizedRecords[i].id])

\* the loader received a response that holds the collection
CollectionReceived ==
    /\ upstream.by \in {"loader", "loaderList"}
    /\ upstream.data # Nothing
    /\ upstream.data[1].collection # Nothing

\* the product nodes of the response the loader received
ReceivedNodes ==
    LET edges == upstream.data[1].collection[1].products.edges
    IN  [i \in 1..Len(edges) |-> edges[i].node]

\* the record made of a node has the defaults of the fields the node lacks
DefaultsFilled(node, record) ==
    /\ node.title = Nothing => record.title = <<"N", "/", "A">>
    /\ node.title # Nothing => record.title = node.title[1]
    /\ (node.variants = <<>> \/ node.variants[1].barcode = Nothing) =>
           record.barcode = <<"N", "/", "A">>
    /\ (node.variants # <<>> /\ node.variants[1].barcode # Nothing) =>
           record.barcode = node.variants[1].barcode[1]
    /\ WeightOf(node) = Nothing => record.weight = <<"N", "/", "A">>
    /\ node.featuredImage = Nothing => record.image = Nothing
    /\ node.totalInventory = Nothing => record.availableUnits = 0
    /\ node.totalInventory # Nothing => record.availableUnits = node.totalInventory[1]

\* C20: normalizing never fails on absent optional fields: for every response
\* that holds the collection the loader returns data with one record per
\* product node, whatever the node lacks, with title N/A for no title,
\* barcode N/A for no barcode or no variant, image null for no image and
\* availableUnits 0 for no inventory count.
C20_DefaultsForAbsentFields ==
    CollectionReceived =>
        /\ Loaded \/ LoadedList
        /\ Len(NormalizedRecords) = Len(ReceivedNodes)
        /\ \A i \in 1..Len(ReceivedNodes) :
               DefaultsFilled(ReceivedNodes[i], NormalizedRecords[i])

\* C20 witness: a record made of a node with no title, no variant, no image
\* and no inventory count
C20_Witness ==
    /\ CollectionReceived
    /\ Loaded
    /\ \E i \in 1..Len(ReceivedNodes) :
           /\ ReceivedNodes[i].title = Nothing
           /\ ReceivedNodes[i].variants = <<>>
           /\ ReceivedNodes[i].featuredImage = Nothing
           /\ ReceivedNodes[i].totalInventory = Nothing
           /\ NormalizedRecords[i].title = <<"N", "/", "A">>
           /\ NormalizedRecords[i].availableUnits = 0

\* C21: every record the collection loader returns has a non-negative number
\* of available units, whatever inventory count its node carried (a negative
\* or an absent one included), and the sold-out filter keeps a record exactly
\* when its available units are zero.
C21_UnitsNonNegative ==
    Loaded =>
        \A i \in 1..Len(loaderData.collection.allProductsFromPage) :
            LET p == loaderData.collection.allProductsFromPage[i]
            IN  /\ p.availableUnits \in Nat
                /\ stockFilterKeeps(p, "sold-out") <=> p.availableUnits = 0

\* the ids of the products in the window the last loader call received
WindowIds ==
    IF CollectionReceived
    THEN [i \in 1..Len(ReceivedNodes) |-> ReceivedNodes[i].id]
    ELSE <<>>

\* the records shown are records of the last window, in the window's order
ShownFromLastWindow ==
    Loaded =>
        /\ upstream.by = "loader"
        /\ \A i \in 1..Len(Displayed) :
               \E k \in 1..Len(WindowIds) :
                   /\ WindowIds[k] = Displayed[i].id
                   /\ Displayed[i] = loaderData.collection.allProductsFromPage[k]
        /\ \A i, j \in 1..Len(Displayed) : i < j => Displayed[i].id < Displayed[j].id

\* typing into the search box issues no request and loads nothing
TypingStaysLocal ==
    \A value \in SearchInputs :
        handleSearchChange(value) => UNCHANGED <<pending, upstream, loaderData, url>>

\* C22: in the cursor-paged view the records shown are always a subsequence
\* of the one window the last loader call returned, and typing a search query
\* issues no upstream request and brings in no record of another page.
C22_SearchWithinWindow ==
    /\ []ShownFromLastWindow
    /\ [][TypingStaysLocal]_vars

\* C22 witness: a query typed on a later page that a product of another page
\* matches too
C22_Witness ==
    /\ Loaded
    /\ url.cursor # Nothing
    /\ ~Blank(searchQuery)
    /\ Displayed # <<>>
    /\ \E j \in 1..Len(shop.products) :
           /\ \A k \in 1..Len(WindowIds) : WindowIds[k] # j
           /\ MatchesIgnoringCase(normalizeNode(shop.products[j]), searchQuery)

\* the product request came with an id
IdGiven == prodCall.params.id # Nothing /\ prodCall.params.id # Just(<<>>)

\* the product request got through to a product
ProductFound ==
    /\ prodCall.env.auth = "ok"
    /\ IdGiven
    /\ prodCall.env.graphql = "ok"
    /\ ~prodCall.env.data.errors
    /\ prodCall.env.data.data # Nothing
    /\ prodCall.env.data.data[1].product # Nothing

\* C23: a loader run sends one upstream query and never a second: the
\* collection loaders one per request, the product loader one on success, on
\* not found and on upstream failure and none when the id is missing; a
\* request that fails ends in an error response, with no request left over.
C23_OneQueryPerRequest ==
    /\ upstream.by # "none" =>
           /\ upstream.queries = 1
           /\ pending.kind = "none"
           /\ ~CollectionReceived => loaderData.kind \in {"response", "exception"}
    /\ prodCall.kind = "call" =>
           /\ prodResult.graphqlCalls <= 1
           /\ prodCall.env.auth = "ok" =>
                  prodResult.graphqlCalls = (IF IdGiven THEN 1 ELSE 0)
           /\ ~ProductFound =>
                  /\ prodResult.result.kind = "response"
                  /\ prodResult.result.status \in {302, 400, 404, 500}

\* C23 witness: the upstream query of a product request threw, and the
\* collection loader was failed by an error payload
C23_Witness ==
    /\ prodCall.kind = "call"
    /\ prodCall.env.auth = "ok"
    /\ IdGiven
    /\ prodCall.env.graphql = "throws"
    /\ prodResult.graphqlCalls = 1
    /\ upstream.by = "loader"
    /\ upstream.errors

\* the authenticated product request with an id got a response
ProductAnswered ==
    /\ prodCall.env.auth = "ok"
    /\ IdGiven
    /\ prodCall.env.graphql = "ok"

\* C24: the error outcomes of the product loader come in a fixed order and
\* keep their status: no id gives 400 before any upstream query; an errors
\* member gives 500, also when the product is null; no errors and no product
\* gives 404; a Response thrown inside the try block leaves with its own
\* status; any other exception gives 500.
C24_ProductErrorOrder ==
    prodCall.kind = "call" =>
        /\ (prodCall.env.auth = "ok" /\ ~IdGiven) =>
               /\ prodResult.result = ThrownResponse(400)
               /\ prodResult.graphqlCalls = 0
        /\ (ProductAnswered /\ prodCall.env.data.errors) =>
               prodResult.result = ThrownResponse(500)
        /\ (ProductAnswered /\ ~prodCall.env.data.errors /\ ~ProductFound) =>
               prodResult.result = ThrownResponse(404)
        /\ prodCall.env.auth = "redirect" => prodResult.result = ThrownResponse(302)
        /\ (prodCall.env.auth = "error"
              \/ (prodCall.env.auth = "ok" /\ IdGiven /\ prodCall.env.graphql = "throws")) =>
               prodResult.result = ThrownResponse(500)
        /\ ProductFound => prodResult.result.kind = "data"

\* C24 witness: a response with an errors member and a null product,
\* answered with 500
C24_Witness ==
    /\ prodCall.kind = "call"
    /\ ProductAnswered
    /\ prodCall.env.data.errors
    /\ prodCall.env.data.data = Just([product |-> Nothing])
    /\ prodResult.result = ThrownResponse(500)

\* C25: the stock label in the name of every file exportCurrentPage writes
\* is the label of the stock filter the exported records were fetched under,
\* also when the export falls between a tab change and the delivery of the
\* navigation it started.
C25_LabelMatchesRecords ==
    (out.file.kind = "csv" /\ Loaded) =>
        out.file.name[2] =
            (IF loaderData.stockFilter = "in-stock" THEN "InStock" ELSE "SoldOut")

\* the loader kept the records with available units above zero
KeptInStock ==
    \A i \in 1..Len(loaderData.collection.allProductsFromPage) :
        LET p == loaderData.collection.allProductsFromPage[i]
        IN  (\E k \in 1..Len(loaderData.collection.products) :
                 loaderData.collection.products[k].id = p.id)
                <=> p.availableUnits > 0

\* C26: whatever the stock param of the URL (absent, in-stock, sold-out or
\* any other string), once the page has loaded the In Stock tab is the
\* selected one exactly when the loader applied the in-stock predicate.
C26_TabMatchesPredicate ==
    (Loaded /\ pending.kind = "none") =>
        /\ selectedTab = 0 <=> loaderData.stockFilter = "in-stock"
        /\ selectedTab = 0 => KeptInStock

\* the places (page, row) of the records shown during the traversal
ShownPlaces ==
    {<<w, i>> : w \in 1..Len(visited), i \in 1..perPage} \cap
        {pl \in (1..Len(visited)) \X (1..perPage) : pl[2] <= Len(visited[pl[1]].records)}

\* the product at position j of the collection satisfies the stock filter of
\* the traversal
SatisfiesFilter(j) ==
    IF ParamOr(url.stock, "in-stock") = "in-stock"
    THEN NumOr(shop.products[j].totalInventory, 0) > 0
    ELSE NumOr(shop.products[j].totalInventory, 0) = 0

\* no product is shown at two places, and every product shown satisfies the
\* filter
ShownOnceAndMatching ==
    /\ \A p, q \in ShownPlaces :
           p # q => visited[p[1]].records[p[2]].id # visited[q[1]].records[q[2]].id
    /\ \A p \in ShownPlaces : SatisfiesFilter(visited[p[1]].records[p[2]].id)

\* every product that satisfies the filter has been shown
AllMatchingShown ==
    \A j \in 1..Len(shop.products) :
        SatisfiesFilter(j) => \E p \in ShownPlaces : visited[p[1]].records[p[2]].id = j

\* C27: a forward traversal from the empty cursor under one stock filter
\* shows no product twice and none that fails the filter, and when it has
\* reached the window without a next page it has shown every product of the
\* collection that satisfies the filter.
C27_TraversalShowsEachOnce ==
    (Loaded /\ visited # <<>>) =>
        /\ ShownOnceAndMatching
        /\ TraversalDone => AllMatchingShown

\* C27 witness: a finished traversal of three pages that showed some products
\* and passed over others
C27_Witness ==
    /\ TraversalDone
    /\ Len(visited) = 3
    /\ visited[3].records # <<>>
    /\ \E j \in 1..Len(shop.products) : ~SatisfiesFilter(j)
    /\ AllMatchingShown

\* a step of the cursor-paged view that asks for the previous or next page
PagingStep ==
    /\ Loaded
    /\ pending' # pending
    /\ pending'.kind = "nav"
    /\ pending'.direction # Nothing

\* a paging step carries the stock value of the current URL and changes
\* nothing of the view but the navigation it starts
PagingKeepsView ==
    PagingStep =>
        /\ pending'.stock = Just(IF url.stock = Nothing \/ url.stock = Just("")
                                 THEN "in-stock" ELSE url.stock[1])
        /\ pending'.direction \in {Just("previous"), Just("next")}
        /\ pending'.cursor # Nothing
        /\ searchQuery' = searchQuery
        /\ selectedTab' = selectedTab
        /\ url' = url
        /\ loaderData' = loaderData

\* a step of the cursor-paged view that changes the search query and is not
\* typing alone
SearchChangedByHandler ==
    /\ Loaded
    /\ searchQuery' # searchQuery
    /\ pending' # pending \/ selectedTab' # selectedTab \/ url' # url
          \/ loaderData' # loaderData

\* such a step is a change of tab: it empties the query and navigates to the
\* first page of the tab
OnlyTabChangeResets ==
    SearchChangedByHandler =>
        /\ searchQuery' = <<>>
        /\ pending' = Navigation(Just(IF selectedTab' = 0 THEN "in-stock" ELSE "sold-out"),
                                 Nothing, Nothing)

\* C28: handleNextPage and handlePreviousPage start a navigation with the
\* stock value of the current URL (in-stock when absent) and leave the search
\* query and the selected tab as they are; the search query is changed only
\* by typing and, to empty, by handleTabChange.
C28_PagingFrame == [][PagingKeepsView /\ OnlyTabChangeResets]_vars

\* C28 witness: Next was clicked on the Sold Out tab with a search typed in
C28_Witness ==
    /\ Loaded
    /\ pending.kind = "nav"
    /\ pending.direction = Just("next")
    /\ pending.stock = Just("sold-out")
    /\ url.stock = Just("sold-out")
    /\ selectedTab = 1
    /\ searchQuery # <<>>

\* a step of the page-number view that changes the search query or the tab
SearchOrTabStep ==
    LoadedList /\ (searchQuery' # searchQuery \/ selectedTab' # selectedTab)

\* C29: in the page-number view, whatever the page param and the filtered
\* list, the current page is a number between 1 and the larger of 1 and the
\* page count, the slice shown holds at most a page of records and is not
\* empty when the filtered list is not; a change of the search query or of
\* the tab asks for page 1.
C29_PageWithinRange ==
    LoadedList =>
        /\ currentPage # Nothing
        /\ currentPage[1] \in 1..Max(1, totalPages)
        /\ Len(paginatedProducts) <= perPage
        /\ filteredList # <<>> => paginatedProducts # <<>>

\* the handlers' half of C29, which the code keeps
C29_HandlersAskForPageOne ==
    [][SearchOrTabStep => pending' = PageNavigation(<<"1">>)]_vars

====
